---- MODULE Spec2Model ----
(***************************************************************************)
(* The voice-detection service of m.py and main.py: one POST endpoint that *)
(* authenticates the caller, validates the language, decodes the base64    *)
(* payload, checks the MP3 signature and scores the payload with the       *)
(* process-wide `random` generator re-seeded from the payload's SHA-256.   *)
(*                                                                         *)
(* Representation.                                                         *)
(*  - A base64 string is a sequence of runs of 4-character groups followed *)
(*    by a tail of 0..3 left-over characters; a character is its index in  *)
(*    the base64 alphabet (0..63) and 64 stands for '='.                   *)
(*  - A byte string is a sequence of runs [b |-> bytes, n |-> repeats].    *)
(*  - A float is a fixed-point integer counting units of 1/Unit, with      *)
(*    Unit = 10^4 * 2^16, so that every decimal literal of the program and *)
(*    every value n/16384 is exact.  random.random() keeps the leading 18  *)
(*    bits of its 53-bit fraction.                                         *)
(*  - hashlib.sha256 and the Mersenne Twister are library code: they are   *)
(*    tabulated with their real values on the payloads of the model.       *)
(***************************************************************************)
EXTENDS Integers, Sequences, FiniteSets, TLC

VARIABLES
  app,            \* which entry point is running: "m" (m.py) or "main" (main.py)
  VALID_API_KEY,  \* the configured credential of that process
  rng,            \* state of the module-level generator of `random`
  last,           \* the request handled last, with its response and its trace
  prev            \* an earlier successful detection, kept for comparison

vars == <<app, VALID_API_KEY, rng, last, prev>>

\* ------------------------------------------------------------------ bounds
\* Clock readings (elapsed milliseconds, timestamps) range over 0..MaxTick.
MaxTick == 1

\* ------------------------------------------------------------ fixed point
Unit == 10000 * 65536

\* A decimal literal given in hundredths, e.g. Dec(75) is 0.75.
Dec(h) == h * (Unit \div 100)

\* x * c for a float x and a decimal literal c given in hundredths.
MulDec(x, h) == (x \div 100) * h

\* Python's round(): to the nearest multiple, ties to the even one.
RoundHalfEven(num, den) ==
  LET q == num \div den
      r == num % den
  IN IF 2 * r > den \/ (2 * r = den /\ q % 2 = 1) THEN q + 1 ELSE q

\* round(x, 4), round(x, 3), round(x, 2): the result counts 10^-ndigits.
round(x, ndigits) ==
  CASE ndigits = 4 -> RoundHalfEven(x, 65536)
    [] ndigits = 3 -> RoundHalfEven(x, 655360)
    [] ndigits = 2 -> RoundHalfEven(x, 6553600)

\* ----------------------------------------------------------------- strings
Letter ==
  [c \in {"a","c","d","e","f","g","h","i","l","m","n","r","s","t","u","y",
          "E","F","H","M","T"} |->
     CASE c = "a" -> [lower |-> "a", upper |-> "A"]
       [] c = "c" -> [lower |-> "c", upper |-> "C"]
       [] c = "d" -> [lower |-> "d", upper |-> "D"]
       [] c = "e" -> [lower |-> "e", upper |-> "E"]
       [] c = "f" -> [lower |-> "f", upper |-> "F"]
       [] c = "g" -> [lower |-> "g", upper |-> "G"]
       [] c = "h" -> [lower |-> "h", upper |-> "H"]
       [] c = "i" -> [lower |-> "i", upper |-> "I"]
       [] c = "l" -> [lower |-> "l", upper |-> "L"]
       [] c = "m" -> [lower |-> "m", upper |-> "M"]
       [] c = "n" -> [lower |-> "n", upper |-> "N"]
       [] c = "r" -> [lower |-> "r", upper |-> "R"]
       [] c = "s" -> [lower |-> "s", upper |-> "S"]
       [] c = "t" -> [lower |-> "t", upper |-> "T"]
       [] c = "u" -> [lower |-> "u", upper |-> "U"]
       [] c = "y" -> [lower |-> "y", upper |-> "Y"]
       [] c = "E" -> [lower |-> "e", upper |-> "E"]
       [] c = "F" -> [lower |-> "f", upper |-> "F"]
       [] c = "H" -> [lower |-> "h", upper |-> "H"]
       [] c = "M" -> [lower |-> "m", upper |-> "M"]
       [] c = "T" -> [lower |-> "t", upper |-> "T"]]

\* str.lower()
lower(s) == [i \in 1..Len(s) |-> Letter[s[i]].lower]

\* str.capitalize(): first character upper case, the rest lower case.
capitalize(s) ==
  [i \in 1..Len(s) |-> IF i = 1 THEN Letter[s[i]].upper ELSE Letter[s[i]].lower]

tamil     == <<"t","a","m","i","l">>
english   == <<"e","n","g","l","i","s","h">>
hindi     == <<"h","i","n","d","i">>
malayalam == <<"m","a","l","a","y","a","l","a","m">>
telugu    == <<"t","e","l","u","g","u">>
french    == <<"f","r","e","n","c","h">>

SUPPORTED_LANGUAGES == <<tamil, english, hindi, malayalam, telugu>>

\* The Literal[...] type of AudioRequest.language.
AudioRequestLanguages == {tamil, english, hindi, malayalam, telugu}

InList(x, list) == \E i \in 1..Len(list) : list[i] = x

\* ------------------------------------------------------------------ bytes
RECURSIVE BytesLen(_)
BytesLen(bs) ==
  IF bs = <<>> THEN 0
  ELSE Len(Head(bs).b) * Head(bs).n + BytesLen(Tail(bs))

\* The first k bytes of a byte string (fewer when it is shorter).
RECURSIVE Take(_, _)
Take(bs, k) ==
  IF k = 0 \/ bs = <<>> THEN <<>>
  ELSE LET r == Head(bs)
       IN IF r.n = 0 \/ r.b = <<>> THEN Take(Tail(bs), k)
          ELSE LET m == IF k < Len(r.b) THEN k ELSE Len(r.b)
               IN SubSeq(r.b, 1, m)
                    \o Take(<<[b |-> r.b, n |-> r.n - 1]>> \o Tail(bs), k - m)

startswith(bs, prefix) == Take(bs, Len(prefix)) = prefix

\* b'\xff\xfb' and b'ID3'
MP3_FRAME_SYNC == <<255, 251>>
ID3_TAG == <<73, 68, 51>>

\* ----------------------------------------------------------------- base64
PAD == 64

\* One 4-character group to the 1, 2 or 3 bytes it encodes.
DecodeQuad(q) ==
  LET b1 == q[1] * 4 + q[2] \div 16
      b2 == (q[2] % 16) * 16 + q[3] \div 4
      b3 == (q[3] % 4) * 64 + q[4]
  IN IF q[3] = PAD THEN <<b1>>
     ELSE IF q[4] = PAD THEN <<b1, b2>>
     ELSE <<b1, b2, b3>>

\* base64.b64decode: left-over characters make binascii raise
\* "Incorrect padding"; otherwise every group decodes to its bytes.
b64decode(s) ==
  IF s.tail # <<>>
    THEN [ok |-> FALSE, error |-> "Incorrect padding", bytes |-> <<>>]
    ELSE [ok |-> TRUE, error |-> "",
          bytes |-> [i \in 1..Len(s.quads) |->
                       [b |-> DecodeQuad(s.quads[i].q), n |-> s.quads[i].n]]]

\* ------------------------------------------------------ audio_base64 inputs
Quad(c1, c2, c3, c4, n) == [q |-> <<c1, c2, c3, c4>>, n |-> n]

\* "SUQzAAmO": 'ID3' 00 09 8E
B64_A == [quads |-> <<Quad(18,20,16,51,1), Quad(0,0,38,14,1)>>, tail |-> <<>>]
\* "//sAnIk=": FF FB 00 9C 89
B64_B == [quads |-> <<Quad(63,63,44,0,1), Quad(39,8,36,PAD,1)>>, tail |-> <<>>]
\* FF FB followed by 1600 zero bytes
B64_C == [quads |-> <<Quad(63,63,44,0,1), Quad(0,0,0,0,533)>>, tail |-> <<>>]
\* FF FB followed by 16382 zero bytes: 16384 bytes
B64_D == [quads |-> <<Quad(63,63,44,0,1), Quad(0,0,0,0,5460), Quad(0,0,PAD,PAD,1)>>,
          tail |-> <<>>]
\* 'ID3' followed by 2045 zero bytes: 2048 bytes
B64_E == [quads |-> <<Quad(18,20,16,51,1), Quad(0,0,0,0,681), Quad(0,0,0,PAD,1)>>,
          tail |-> <<>>]
\* "UklGRg==": 'RIFF', not an MP3
B64_RIFF == [quads |-> <<Quad(20,36,37,6,1), Quad(17,32,PAD,PAD,1)>>, tail |-> <<>>]
\* "": the empty payload
B64_EMPTY == [quads |-> <<>>, tail |-> <<>>]
\* "//s": not valid base64
B64_BADPAD == [quads |-> <<>>, tail |-> <<63, 63, 44>>]

AudioInputs == {B64_A, B64_B, B64_C, B64_D, B64_E, B64_RIFF, B64_EMPTY, B64_BADPAD}

BytesA == <<[b |-> <<73,68,51>>, n |-> 1], [b |-> <<0,9,142>>, n |-> 1]>>
BytesB == <<[b |-> <<255,251,0>>, n |-> 1], [b |-> <<156,137>>, n |-> 1]>>
BytesC == <<[b |-> <<255,251,0>>, n |-> 1], [b |-> <<0,0,0>>, n |-> 533]>>
BytesD == <<[b |-> <<255,251,0>>, n |-> 1], [b |-> <<0,0,0>>, n |-> 5460],
            [b |-> <<0>>, n |-> 1]>>
BytesE == <<[b |-> <<73,68,51>>, n |-> 1], [b |-> <<0,0,0>>, n |-> 681],
            [b |-> <<0,0>>, n |-> 1]>>
BytesRIFF == <<[b |-> <<82,73,70>>, n |-> 1], [b |-> <<70>>, n |-> 1]>>
BytesEMPTY == <<>>

\* ------------------------------------------------- hashlib.sha256, random
\* The SHA-256 digests of the payloads, as 64 hexadecimal digits.
Sha256Table ==
  {[msg |-> BytesA,
   digest |-> <<1,9,12,11,6,10,1,9,3,8,13,7,10,2,12,1,10,2,11,0,13,11,3,14,6,15,14,1,15,14,15,13,3,12,0,14,4,11,10,12,4,14,7,2,13,6,5,11,5,0,11,8,2,7,3,2,13,0,11,14,11,4,5,3>>],
  [msg |-> BytesB,
   digest |-> <<10,9,8,8,10,0,13,11,15,13,1,1,11,3,9,12,0,12,5,15,3,14,0,14,6,12,5,0,3,9,6,8,12,14,9,14,8,7,14,8,13,3,9,2,8,5,3,13,0,1,11,1,0,1,13,5,13,15,1,2,10,5,6,3>>],
  [msg |-> BytesC,
   digest |-> <<0,5,14,9,13,6,10,9,12,9,14,10,12,13,8,10,8,7,8,3,6,9,4,5,11,1,13,3,2,4,1,9,7,11,10,15,5,1,9,7,4,10,4,13,4,5,10,14,1,15,2,12,8,4,10,7,13,8,7,15,8,8,11,3>>],
  [msg |-> BytesD,
   digest |-> <<0,1,0,11,8,4,13,10,6,7,11,8,7,5,13,10,5,5,11,5,7,9,5,15,1,13,10,0,5,7,6,10,13,11,4,0,8,9,11,10,5,8,3,10,10,6,4,13,6,13,11,13,12,4,3,15,7,8,6,3,5,9,4,5>>],
  [msg |-> BytesE,
   digest |-> <<12,0,1,11,0,10,11,9,0,14,11,7,5,6,7,6,15,8,9,14,12,2,0,8,1,2,8,0,10,15,7,7,15,5,3,7,12,4,9,9,10,10,0,0,13,4,8,3,6,3,0,3,14,10,3,12,13,15,9,1,4,1,5,3>>],
  [msg |-> BytesRIFF,
   digest |-> <<10,4,0,15,15,3,13,5,9,0,0,15,11,7,6,9,8,11,8,12,8,6,5,0,4,1,3,4,7,12,11,4,9,14,12,12,14,13,12,8,15,9,3,9,4,5,15,8,9,6,2,9,10,13,1,0,4,10,10,14,12,12,14,4>>],
  [msg |-> BytesEMPTY,
   digest |-> <<14,3,11,0,12,4,4,2,9,8,15,12,1,12,1,4,9,10,15,11,15,4,12,8,9,9,6,15,11,9,2,4,2,7,10,14,4,1,14,4,6,4,9,11,9,3,4,12,10,4,9,5,9,9,1,11,7,8,5,2,11,8,5,5>>]}

\* The first 32-bit outputs of random.seed(hash_value) for the same payloads,
\* each kept to its leading 18 bits.
MT19937Table ==
  {[seed |-> <<1,9,12,11,6,10,1,9,3,8,13,7,10,2,12,1>>,
   words |-> <<88436,151510,262110,168100,166288,200261,198259,124945,116593,150619,24,174591,151893,203617,31261,205164,144565,84967,21906,261708,89111,121188,157249,175507,63713,133442,214633,221544,254268,104155,123297,72102>>],
  [seed |-> <<10,9,8,8,10,0,13,11,15,13,1,1,11,3,9,12>>,
   words |-> <<179380,116549,262097,112479,19946,56319,79923,182726,201834,14840,256760,196022,25340,110986,38337,194855,189057,40835,169081,23581,77650,101714,108061,72330,59278,79838,178400,89944,124545,48886,29105,199901>>],
  [seed |-> <<0,5,14,9,13,6,10,9,12,9,14,10,12,13,8,10>>,
   words |-> <<112972,201302,218211,26956,91446,24181,244482,194903,190339,127089,49431,48222,205328,128825,145545,180289,6427,193211,182867,217148,204516,170372,87420,231194,236933,178543,144845,215339,104105,162685,170691,252816>>],
  [seed |-> <<0,1,0,11,8,4,13,10,6,7,11,8,7,5,13,10>>,
   words |-> <<209635,189137,94338,208044,82868,51796,36987,130237,163927,168326,156193,206006,50203,223363,195120,240563,106887,207407,119157,63119,7366,111938,48695,204979,199730,158855,5512,121082,250411,218840,107309,28461>>],
  [seed |-> <<12,0,1,11,0,10,11,9,0,14,11,7,5,6,7,6>>,
   words |-> <<36664,232502,4778,91790,111930,87634,187801,70178,59324,52680,75032,183568,12189,231679,189386,203594,46988,207399,60026,126057,35875,43296,138849,183533,174702,53391,96103,45179,116375,107463,157230,163933>>],
  [seed |-> <<10,4,0,15,15,3,13,5,9,0,0,15,11,7,6,9>>,
   words |-> <<218278,244955,177770,193255,30545,132921,218262,200419,14987,219339,213175,237398,122138,103055,201530,23922,23757,32395,209179,119117,96266,65828,15481,239628,157783,245679,123352,169196,121216,116934,235245,94735>>],
  [seed |-> <<14,3,11,0,12,4,4,2,9,8,15,12,1,12,1,4>>,
   words |-> <<245673,253505,226800,13456,144629,55593,186783,4535,127540,145712,187138,53087,114466,39900,229618,127219,153177,152539,32344,241821,246667,72176,103879,47236,78632,118644,187974,176925,22948,216864,251639,240603>>]}

\* hashlib.sha256(audio_bytes).hexdigest()
sha256_hexdigest(audio_bytes) ==
  (CHOOSE e \in Sha256Table : e.msg = audio_bytes).digest

\* int(audio_hash[:16], 16): the 64-bit integer written by the first 16
\* hexadecimal digits, kept as those digits.
hash_value(audio_hash) == SubSeq(audio_hash, 1, 16)

\* ------------------------------------------------ the module-level generator
\* The state of the generator: the seed it was last seeded with and the
\* number of 32-bit outputs consumed since.  At import the generator is
\* seeded from operating-system entropy, written <<>>.
OS_ENTROPY == <<>>

\* The leading 18 bits of the pos-th 32-bit output of the Mersenne Twister
\* seeded with seed; the outputs of the entropy-seeded generator are unknown
\* and never read.
MTWord(seed, pos) ==
  IF \E e \in MT19937Table : e.seed = seed
    THEN LET words == (CHOOSE e \in MT19937Table : e.seed = seed).words
         IN words[(pos % Len(words)) + 1]
    ELSE 0

\* Variant: the generator is seeded only while it still holds its start-up
\* state, so later requests continue the stream of the first one.
random_seed_once(g, a) ==
  IF g.seed = OS_ENTROPY THEN [seed |-> a, pos |-> 0] ELSE g

\* random.seed(a)
random_seed(g, a) == [seed |-> a, pos |-> 0]

\* random.random(): two outputs make one 53-bit fraction in [0, 1); the
\* value keeps the leading 18 bits.
random_random(g) ==
  [val |-> MTWord(g.seed, g.pos) * (Unit \div 262144),
   g   |-> [g EXCEPT !.pos = @ + 2]]

\* Random.getrandbits(k) for k <= 18: the leading k bits of one output.
getrandbits(g, k) ==
  [val |-> MTWord(g.seed, g.pos) \div (2 ^ (18 - k)),
   g   |-> [g EXCEPT !.pos = @ + 1]]

\* int.bit_length()
bit_length(n) == CASE n = 1 -> 1 [] n \in 2..3 -> 2 [] n \in 4..7 -> 3

\* Random._randbelow(n): draw bit_length(n) bits until the value is below n.
RECURSIVE randbelow(_, _)
randbelow(g, n) ==
  LET d == getrandbits(g, bit_length(n))
  IN IF d.val >= n THEN randbelow(d.g, n) ELSE d

\* random.randint(a, b) is a + _randbelow(b - a + 1).
randint(g, a, b) ==
  LET d == randbelow(g, b - a + 1)
  IN [val |-> a + d.val, g |-> d.g]

\* Variant: the pool slot is not refilled, so an entry can be picked again.
RECURSIVE SampleLoopReplace(_, _, _, _, _)
SampleLoopReplace(g, pool, i, k, result) ==
  IF i = k THEN [val |-> result, g |-> g]
  ELSE LET n == Len(pool)
           d == randbelow(g, n - i)
           j == d.val + 1
       IN SampleLoopReplace(d.g, pool, i + 1, k, Append(result, pool[j]))

sample_with_replacement(g, population, k) ==
  SampleLoopReplace(g, population, 0, k, <<>>)

\* random.sample(population, k): k times, pick pool[j] with
\* j = _randbelow(n - i) and move the last live entry of the pool into slot j.
RECURSIVE SampleLoop(_, _, _, _, _)
SampleLoop(g, pool, i, k, result) ==
  IF i = k THEN [val |-> result, g |-> g]
  ELSE LET n == Len(pool)
           d == randbelow(g, n - i)
           j == d.val + 1
       IN SampleLoop(d.g, [pool EXCEPT ![j] = pool[n - i]], i + 1, k,
                     Append(result, pool[j]))

sample(g, population, k) == SampleLoop(g, population, 0, k, <<>>)

\* Variant: the upper end is used as the width of the range.
uniform_wide(g, a, b) ==
  LET d == random_random(g)
  IN [val |-> Dec(a) + MulDec(d.val, b), g |-> d.g]

\* random.uniform(a, b) is a + (b - a) * random(); a, b in hundredths.
uniform(g, a, b) ==
  LET d == random_random(g)
  IN [val |-> Dec(a) + MulDec(d.val, b - a), g |-> d.g]

\* ------------------------------------------------------- mock_ai_detection
ai_indicators ==
  <<"Unnatural pitch consistency detected",
    "Spectral anomalies in high-frequency range",
    "Irregular breathing pattern intervals",
    "Phase coherence artifacts present",
    "Prosody smoothness exceeds human baseline">>

human_indicators ==
  <<"Natural voice tremor patterns detected",
    "Organic breathing sounds present",
    "Micro-variations in pitch consistent with human speech",
    "Formant transitions show natural articulatory movement",
    "Background noise characteristics indicate real recording">>

\* Variant: the language tag is put into the caption as it was sent.
language_specific_analysis_raw(language) ==
  <<language, " phonetic patterns analyzed">>

\* f"{language.capitalize()} phonetic patterns analyzed"
language_specific_analysis(language) ==
  <<capitalize(language), " phonetic patterns analyzed">>

\* One use of the generator: what it was for, the seed of the generator it
\* came from and the outputs [from, to) it consumed.
Draw(use, g, g2) == [use |-> use, seed |-> g.seed, from |-> g.pos, to |-> g2.pos]

\* is_ai = random.random() < 0.6
AI_THRESHOLD == Dec(60)

\* Variant: the two multipliers exchanged between the labels.
confidence_score_swapped(is_ai, r) ==
  IF is_ai THEN Dec(75) + MulDec(r, 25) ELSE Dec(70) + MulDec(r, 23)

\* confidence = 0.75 + random.random() * 0.23 for AI_GENERATED,
\*              0.70 + random.random() * 0.25 for HUMAN
confidence_score(is_ai, r) ==
  IF is_ai THEN Dec(75) + MulDec(r, 23) ELSE Dec(70) + MulDec(r, 25)

\* m.py, mock_ai_detection
m_mock_ai_detection(g, audio_bytes, language) ==
  LET audio_hash == sha256_hexdigest(audio_bytes)
      g0 == random_seed(g, hash_value(audio_hash))
      d1 == random_random(g0)
      is_ai == d1.val < AI_THRESHOLD
      d2 == random_random(d1.g)
      confidence == confidence_score(is_ai, d2.val)
      d3 == randint(d2.g, 2, 3)
      d4 == sample(d3.g, IF is_ai THEN ai_indicators ELSE human_indicators, d3.val)
      d5 == uniform(d4.g, 70, 95)
      d6 == uniform(d5.g, 65, 92)
      d7 == uniform(d6.g, 70, 98)
  IN [classification |-> IF is_ai THEN "AI_GENERATED" ELSE "HUMAN",
      confidence |-> round(confidence, 4),
      explanation |->
        [primary_indicators |-> d4.val,
         language_specific_analysis |-> language_specific_analysis(language),
         confidence_factors |->
           [spectral_analysis |-> round(d5.val, 3),
            prosodic_features |-> round(d6.val, 3),
            artifact_detection |-> round(d7.val, 3)]],
      g |-> d7.g,
      draws |-> <<Draw("seed", g0, g0),
                  Draw("label", g0, d1.g),
                  Draw("confidence", d1.g, d2.g),
                  Draw("indicator_count", d2.g, d3.g),
                  Draw("indicator_sample", d3.g, d4.g),
                  Draw("spectral_analysis", d4.g, d5.g),
                  Draw("prosodic_features", d5.g, d6.g),
                  Draw("artifact_detection", d6.g, d7.g)>>]

\* main.py, mock_ai_detection: always three indicators, no count is drawn.
main_mock_ai_detection(g, audio_bytes, language) ==
  LET audio_hash == sha256_hexdigest(audio_bytes)
      g0 == random_seed(g, hash_value(audio_hash))
      d1 == random_random(g0)
      is_ai == d1.val < AI_THRESHOLD
      d2 == random_random(d1.g)
      confidence == confidence_score(is_ai, d2.val)
      d4 == sample(d2.g, IF is_ai THEN ai_indicators ELSE human_indicators, 3)
      d5 == uniform(d4.g, 70, 95)
      d6 == uniform(d5.g, 65, 92)
      d7 == uniform(d6.g, 70, 98)
  IN [classification |-> IF is_ai THEN "AI_GENERATED" ELSE "HUMAN",
      confidence |-> round(confidence, 4),
      explanation |->
        [primary_indicators |-> d4.val,
         language_specific_analysis |-> language_specific_analysis(language),
         confidence_factors |->
           [spectral_analysis |-> round(d5.val, 3),
            prosodic_features |-> round(d6.val, 3),
            artifact_detection |-> round(d7.val, 3)]],
      g |-> d7.g,
      draws |-> <<Draw("seed", g0, g0),
                  Draw("label", g0, d1.g),
                  Draw("confidence", d1.g, d2.g),
                  Draw("indicator_sample", d2.g, d4.g),
                  Draw("spectral_analysis", d4.g, d5.g),
                  Draw("prosodic_features", d5.g, d6.g),
                  Draw("artifact_detection", d6.g, d7.g)>>]

\* ------------------------------------------------------------ the handlers
DETECT == "/api/v1/detect"

M_API_KEY == "hackathon_2024_voice_detection_key"

\* Values the VOICE_API_KEY environment variable of main.py may hold (it is
\* never empty: main.py refuses to start without it).
EnvKeys == {M_API_KEY, "prod_key"}

\* Credentials callers send in X-API-Key.
ApiKeys == {M_API_KEY, "prod_key"}

HTTPException(status_code, detail) ==
  [raised |-> TRUE, status_code |-> status_code, detail |-> detail]

NoException == [raised |-> FALSE, status_code |-> 0, detail |-> ""]

\* verify_api_key
verify_api_key(api_key, detail) ==
  IF api_key # VALID_API_KEY THEN HTTPException(401, detail) ELSE NoException

\* Variant: a kilobyte taken as 1000 bytes.
estimated_duration_decimal_kb(audio_bytes) ==
  BytesLen(audio_bytes) * (Unit \div (1000 * 16))

\* file_size_kb = len(audio_bytes) / 1024; estimated_duration = file_size_kb / 16
estimated_duration(audio_bytes) == BytesLen(audio_bytes) * (Unit \div (1024 * 16))

\* Variant: the signature check is left out.
decode_audio_unchecked(audio_base64) ==
  LET decoded == b64decode(audio_base64)
      audio_bytes == decoded.bytes
  IN IF ~decoded.ok
       THEN [exc |-> HTTPException(400, <<"Invalid audio data: ", decoded.error>>)]
     ELSE [exc |-> NoException,
           audio_bytes |-> audio_bytes,
           estimated_duration |-> estimated_duration(audio_bytes)]

\* Variant: the signature is checked only on a payload that has bytes.
decode_audio_empty_ok(audio_base64) ==
  LET decoded == b64decode(audio_base64)
      audio_bytes == decoded.bytes
  IN IF ~decoded.ok
       THEN [exc |-> HTTPException(400, <<"Invalid audio data: ", decoded.error>>)]
     ELSE IF /\ audio_bytes # <<>>
             /\ ~startswith(audio_bytes, MP3_FRAME_SYNC)
             /\ ~startswith(audio_bytes, ID3_TAG)
       THEN [exc |-> HTTPException(400, <<"Invalid audio data: ", "Invalid MP3 format">>)]
     ELSE [exc |-> NoException,
           audio_bytes |-> audio_bytes,
           estimated_duration |-> estimated_duration(audio_bytes)]

\* decode_audio: every exception of the try block, the ValueError of the
\* signature check included, becomes HTTPException(400).
decode_audio(audio_base64) ==
  LET decoded == b64decode(audio_base64)
      audio_bytes == decoded.bytes
  IN IF ~decoded.ok
       THEN [exc |-> HTTPException(400, <<"Invalid audio data: ", decoded.error>>)]
     ELSE IF ~startswith(audio_bytes, MP3_FRAME_SYNC) /\ ~startswith(audio_bytes, ID3_TAG)
       THEN [exc |-> HTTPException(400, <<"Invalid audio data: ", "Invalid MP3 format">>)]
     ELSE [exc |-> NoException,
           audio_bytes |-> audio_bytes,
           estimated_duration |-> estimated_duration(audio_bytes)]

\* Variant: the JSONResponse is built without status_code and defaults to 200.
http_exception_handler_default_status(g, exc, tick, steps) ==
  [status_code |-> 200,
   body |-> [error |-> exc.detail, status_code |-> exc.status_code, timestamp |-> tick],
   g |-> g, steps |-> steps, draws |-> <<>>]

\* http_exception_handler: the response of a request whose handler raised.
http_exception_handler(g, exc, tick, steps) ==
  [status_code |-> exc.status_code,
   body |-> [error |-> exc.detail, status_code |-> exc.status_code, timestamp |-> tick],
   g |-> g, steps |-> steps, draws |-> <<>>]

\* DetectionResponse(...)
DetectionResponse(request, det, duration, tick) ==
  [classification |-> det.classification,
   confidence |-> det.confidence,
   language |-> request.language,
   processing_time_ms |-> tick,
   audio_duration_seconds |-> round(duration, 2),
   explanation |-> det.explanation]

\* The return statement of detect_voice: the DetectionResponse built from the
\* result of mock_ai_detection.
Scored(request, duration, tick, det) ==
  [status_code |-> 200,
   body |-> DetectionResponse(request, det, duration, tick),
   g |-> det.g,
   steps |-> <<"verify_api_key", "language", "decode_audio", "mock_ai_detection">>,
   draws |-> det.draws]

\* Variant: the payload is decoded before the caller is authenticated.
m_detect_voice_decode_first(g, request, tick) ==
  LET auth == verify_api_key(request.api_key, "Invalid API key")
      dec == decode_audio(request.audio_base64)
  IN IF dec.exc.raised
       THEN http_exception_handler(g, dec.exc, tick, <<"decode_audio">>)
     ELSE IF auth.raised
       THEN http_exception_handler(g, auth, tick, <<"decode_audio", "verify_api_key">>)
     ELSE IF ~InList(lower(request.language), SUPPORTED_LANGUAGES)
       THEN http_exception_handler(g,
              HTTPException(400, "Unsupported language. Supported: tamil, english, hindi, malayalam, telugu"),
              tick, <<"decode_audio", "verify_api_key", "language">>)
     ELSE Scored(request, dec.estimated_duration, tick,
                 m_mock_ai_detection(g, dec.audio_bytes, request.language))

\* m.py, detect_voice
m_detect_voice(g, request, tick) ==
  LET auth == verify_api_key(request.api_key, "Invalid API key")
      dec == decode_audio(request.audio_base64)
  IN IF auth.raised
       THEN http_exception_handler(g, auth, tick, <<"verify_api_key">>)
     ELSE IF ~InList(lower(request.language), SUPPORTED_LANGUAGES)
       THEN http_exception_handler(g,
              HTTPException(400, "Unsupported language. Supported: tamil, english, hindi, malayalam, telugu"),
              tick, <<"verify_api_key", "language">>)
     ELSE IF dec.exc.raised
       THEN http_exception_handler(g, dec.exc, tick,
              <<"verify_api_key", "language", "decode_audio">>)
     ELSE Scored(request, dec.estimated_duration, tick,
                 m_mock_ai_detection(g, dec.audio_bytes, request.language))

\* main.py, detect_voice
main_detect_voice(g, request, tick) ==
  LET auth == verify_api_key(request.api_key, "Invalid API Key")
      dec == decode_audio(request.audio_base64)
  IN IF auth.raised
       THEN http_exception_handler(g, auth, tick, <<"verify_api_key">>)
     ELSE IF ~InList(request.language, SUPPORTED_LANGUAGES)
       THEN http_exception_handler(g, HTTPException(400, "Unsupported language"),
              tick, <<"verify_api_key", "language">>)
     ELSE IF dec.exc.raised
       THEN http_exception_handler(g, dec.exc, tick,
              <<"verify_api_key", "language", "decode_audio">>)
     ELSE Scored(request, dec.estimated_duration, tick,
                 main_mock_ai_detection(g, dec.audio_bytes, request.language))

\* class AudioRequest: a body whose language is outside the Literal type is
\* answered 422 by the framework and detect_voice is not called.
AudioRequest(g, request, tick) ==
  IF request.language \notin AudioRequestLanguages
    THEN [status_code |-> 422,
          body |-> [detail |-> "language: unexpected value"],
          g |-> g, steps |-> <<>>, draws |-> <<>>]
    ELSE IF app = "m" THEN m_detect_voice(g, request, tick)
                      ELSE main_detect_voice(g, request, tick)

\* ------------------------------------------------------------------ inputs
Ticks == 0..MaxTick

RequestLanguages == {english, tamil, french}

\* Every payload in english; a few payloads in a second supported language
\* and in an unsupported one.
Requests ==
  {r \in [api_key : ApiKeys, audio_base64 : AudioInputs, language : RequestLanguages] :
     \/ r.language = english
     \/ r.language = tamil /\ r.audio_base64 \in {B64_A, B64_B, B64_RIFF}
     \/ r.language = french /\ r.audio_base64 \in {B64_A, B64_BADPAD}}

\* --------------------------------------------------------------- the system
NoDetection == [set |-> FALSE]

\* What an earlier successful detection returned, without its clock reading.
Snapshot(l) ==
  [set |-> TRUE, request |-> l.request,
   body |-> [l.body EXCEPT !.processing_time_ms = 0]]

\* The model may keep the detection just answered for later comparison.
Remember ==
  IF last.path = DETECT /\ last.status_code = 200
    THEN {prev, Snapshot(last)}
    ELSE {prev}

Init ==
  /\ app \in {"m", "main"}
  /\ VALID_API_KEY \in (IF app = "m" THEN {M_API_KEY} ELSE EnvKeys)
  /\ rng = [seed |-> OS_ENTROPY, pos |-> 0]
  /\ last = [path |-> "", status_code |-> 0, steps |-> <<>>, draws |-> <<>>]
  /\ prev = NoDetection

\* The answer `out` of the framework and the handler becomes the state.
Respond(request, out) ==
  /\ rng' = out.g
  /\ last' = [path |-> DETECT, request |-> request,
              status_code |-> out.status_code, body |-> out.body,
              steps |-> out.steps, draws |-> out.draws]
  /\ prev' \in Remember
  /\ UNCHANGED <<app, VALID_API_KEY>>

\* POST /api/v1/detect
Detect(request, tick) == Respond(request, AudioRequest(rng, request, tick))

\* GET / (m.py only)
root ==
  /\ app = "m"
  /\ last' = [path |-> "/", status_code |-> 200,
              body |-> [message |-> "AI Voice Detection API", version |-> "1.0.0",
                        status |-> "operational",
                        endpoints |-> [detect |-> DETECT, health |-> "/health"]],
              steps |-> <<>>, draws |-> <<>>]
  /\ prev' \in Remember
  /\ UNCHANGED <<app, VALID_API_KEY, rng>>

\* GET /health (m.py only)
health_check(tick) ==
  /\ app = "m"
  /\ last' = [path |-> "/health", status_code |-> 200,
              body |-> [status |-> "healthy", timestamp |-> tick,
                        supported_languages |-> SUPPORTED_LANGUAGES],
              steps |-> <<>>, draws |-> <<>>]
  /\ prev' \in Remember
  /\ UNCHANGED <<app, VALID_API_KEY, rng>>

Next ==
  \/ \E request \in Requests, tick \in Ticks : Detect(request, tick)
  \/ root
  \/ \E tick \in Ticks : health_check(tick)

Spec == Init /\ [][Next]_vars

\* ================================================================ properties
Answered == last.path = DETECT
Succeeded == last.path = DETECT /\ last.status_code = 200

\* The entries of a sequence.
Range(seq) == {seq[i] : i \in 1..Len(seq)}

SameInput(p, l) ==
  /\ p.request.audio_base64 = l.request.audio_base64
  /\ p.request.language = l.request.language

\* C1 -- Determinism: two runs of the detection pipeline on the same payload
\* and the same language return the same label, the same confidence and the
\* same explanation (indicators, caption, three sub-scores), whatever was
\* handled before or between them.
C1_Determinism ==
  (prev.set /\ Succeeded /\ SameInput(prev, last))
    => /\ last.body.classification = prev.body.classification
       /\ last.body.confidence = prev.body.confidence
       /\ last.body.explanation = prev.body.explanation

\* The reference payload (FF FB and 1600 zero bytes) is scored a second time.
C1_Witness ==
  /\ prev.set /\ Succeeded /\ SameInput(prev, last)
  /\ last.request.audio_base64 = B64_C
  /\ last.body.confidence = 9415

\* C2 (as stated) -- the confidence of AI_GENERATED lies in [0.75, 0.98) and
\* that of HUMAN in [0.70, 0.95), the upper bounds strict after rounding to 4
\* decimals.
C2_ConfidenceHalfOpen ==
  Succeeded =>
    /\ last.body.classification = "AI_GENERATED"
         => (7500 <= last.body.confidence /\ last.body.confidence < 9800)
    /\ last.body.classification = "HUMAN"
         => (7000 <= last.body.confidence /\ last.body.confidence < 9500)

\* C2 (amended) -- after rounding to 4 decimals the confidence of
\* AI_GENERATED lies in [0.75, 0.98] and that of HUMAN in [0.70, 0.95]: the
\* upper bounds are attained.
C2_ConfidenceClosed ==
  Succeeded =>
    /\ last.body.classification \in {"AI_GENERATED", "HUMAN"}
    /\ last.body.classification = "AI_GENERATED"
         => (7500 <= last.body.confidence /\ last.body.confidence <= 9800)
    /\ last.body.classification = "HUMAN"
         => (7000 <= last.body.confidence /\ last.body.confidence <= 9500)

\* A HUMAN answer whose confidence rounds up to 0.95.
C2_Witness ==
  /\ Succeeded
  /\ last.body.classification = "HUMAN"
  /\ last.body.confidence = 9500

\* C3 -- Indicator validity: the indicator list has 2 or 3 entries, all of
\* them from the catalog of the returned label, none twice.
C3_IndicatorValidity ==
  Succeeded =>
    LET ind == last.body.explanation.primary_indicators
        catalog == IF last.body.classification = "AI_GENERATED"
                     THEN ai_indicators ELSE human_indicators
    IN /\ Len(ind) \in {2, 3}
       /\ Range(ind) \subseteq Range(catalog)
       /\ Cardinality(Range(ind)) = Len(ind)
       /\ Cardinality(Range(catalog)) = 5
       /\ Range(ai_indicators) \cap Range(human_indicators) = {}

\* Both lengths occur: an earlier answer listed 2 indicators, this one 3.
C3_Witness ==
  /\ prev.set /\ Succeeded
  /\ Len(prev.body.explanation.primary_indicators) = 2
  /\ Len(last.body.explanation.primary_indicators) = 3

\* The inputs whose decoded payload starts with FF FB or 'ID3', with the
\* number of bytes of each payload, and the inputs that do not.
AcceptedInputs == {B64_A, B64_B, B64_C, B64_D, B64_E}
RejectedInputs == {B64_RIFF, B64_EMPTY, B64_BADPAD}

PayloadBytes(s) ==
  CASE s = B64_A -> 6 [] s = B64_B -> 5 [] s = B64_C -> 1602
    [] s = B64_D -> 16384 [] s = B64_E -> 2048

ResultFields ==
  {"classification", "confidence", "audio_duration_seconds", "explanation"}

\* The request of a state was passed to detect_voice (its body is valid).
Handled(l) == l.path = DETECT /\ l.request.language \in AudioRequestLanguages

Authenticated(l) == l.request.api_key = VALID_API_KEY

\* C4 -- Rejection: a request that reaches decoding with a payload starting
\* neither with FF FB nor with 'ID3' (the empty payload and invalid base64
\* included) is answered 400; mock_ai_detection is not invoked for it: the
\* generator is left untouched and no label, confidence or explanation is
\* produced.
C4_Rejection ==
  [][(Handled(last') /\ Authenticated(last')
        /\ last'.request.audio_base64 \in RejectedInputs)
       => /\ last'.status_code = 400
          /\ "mock_ai_detection" \notin Range(last'.steps)
          /\ last'.draws = <<>>
          /\ rng' = rng
          /\ DOMAIN last'.body \cap ResultFields = {}]_vars

\* The empty payload was rejected after an earlier request had been scored.
C4_Witness ==
  /\ Handled(last) /\ Authenticated(last)
  /\ last.request.audio_base64 = B64_EMPTY
  /\ last.status_code = 400
  /\ rng.seed # OS_ENTROPY

\* C5 -- Authentication first: in every execution of detect_voice,
\* verify_api_key is the first step; with a key other than the configured one
\* the request is answered 401 and language validation, decoding,
\* fingerprinting and classification are not executed (the generator is left
\* untouched).
C5_AuthenticationFirst ==
  [][Handled(last')
       => /\ last'.steps # <<>>
          /\ last'.steps[1] = "verify_api_key"
          /\ \A i \in 2..Len(last'.steps) : last'.steps[i] # "verify_api_key"
          /\ ~Authenticated(last')
               => /\ last'.status_code = 401
                  /\ last'.steps = <<"verify_api_key">>
                  /\ last'.draws = <<>>
                  /\ rng' = rng]_vars

\* A wrong key sent with a payload that would have failed decoding: 401.
C5_Witness ==
  /\ Handled(last) /\ ~Authenticated(last)
  /\ last.request.audio_base64 = B64_BADPAD
  /\ last.status_code = 401

\* C6 -- Request-scoped generator: every request draws from a generator of
\* its own; no generator state is shared between requests, so handling a
\* request leaves the generator state that other requests can see as it was.
C6_RequestScopedGenerator == [][rng' = rng]_vars

ErrorFields == {"error", "status_code", "timestamp"}

ResponseFields ==
  {"classification", "confidence", "language", "processing_time_ms",
   "audio_duration_seconds", "explanation"}

\* C7 -- Terminal, single outcome: every request ends in exactly one of an
\* authorization error, a client-input error or a complete DetectionResponse,
\* decided by the first step that fails; a failed request stops at that step
\* and its response carries none of label, confidence, duration, explanation.
C7_SingleOutcome ==
  Answered =>
    LET ok_language == last.request.language \in AudioRequestLanguages
        ok_key == Authenticated(last)
        ok_audio == last.request.audio_base64 \in AcceptedInputs
        failed == last.status_code # 200
    IN /\ last.status_code \in {200, 400, 401, 422}
       /\ last.status_code = 422 <=> ~ok_language
       /\ last.status_code = 401 <=> (ok_language /\ ~ok_key)
       /\ last.status_code = 400 <=> (ok_language /\ ok_key /\ ~ok_audio)
       /\ last.status_code = 200 <=> (ok_language /\ ok_key /\ ok_audio)
       /\ last.status_code = 200
            => /\ DOMAIN last.body = ResponseFields
               /\ DOMAIN last.body.explanation =
                    {"primary_indicators", "language_specific_analysis",
                     "confidence_factors"}
               /\ last.steps[Len(last.steps)] = "mock_ai_detection"
       /\ last.status_code \in {400, 401}
            => /\ DOMAIN last.body = ErrorFields
               /\ last.body.status_code = last.status_code
       /\ last.status_code = 401 => last.steps = <<"verify_api_key">>
       /\ last.status_code = 400 => last.steps[Len(last.steps)] = "decode_audio"
       /\ failed => /\ DOMAIN last.body \cap ResultFields = {}
                    /\ "mock_ai_detection" \notin Range(last.steps)
                    /\ last.draws = <<>>

\* An authorization error answered after an earlier request had succeeded.
C7_Witness ==
  /\ Answered /\ prev.set
  /\ last.status_code = 401
  /\ last.request.audio_base64 \in AcceptedInputs

\* C8 -- Sub-score bounds: after rounding to 3 decimals,
\* 0.70 <= spectral_analysis <= 0.95, 0.65 <= prosodic_features <= 0.92 and
\* 0.70 <= artifact_detection <= 0.98.
C8_SubScoreBounds ==
  Succeeded =>
    LET f == last.body.explanation.confidence_factors
    IN /\ 700 <= f.spectral_analysis /\ f.spectral_analysis <= 950
       /\ 650 <= f.prosodic_features /\ f.prosodic_features <= 920
       /\ 700 <= f.artifact_detection /\ f.artifact_detection <= 980

\* An answer whose spectral_analysis is the lower end of its range, 0.700.
C8_Witness ==
  /\ Succeeded
  /\ last.body.explanation.confidence_factors.spectral_analysis = 700

\* C9 -- Duration: for an accepted payload of n bytes audio_duration_seconds
\* is n / 16384 rounded to 2 decimals, whatever the generator drew and whatever
\* was answered before; 16384 bytes give exactly 1.00.
C9_Duration ==
  Succeeded =>
    LET n == PayloadBytes(last.request.audio_base64)
        h == last.body.audio_duration_seconds
        diff == 4096 * h - 25 * n
    IN /\ 2 * diff <= 4096 /\ 2 * diff >= -4096
       /\ last.request.audio_base64 = B64_D => h = 100
       /\ (prev.set /\ prev.request.audio_base64 = last.request.audio_base64)
            => prev.body.audio_duration_seconds = h

\* The 16384-byte payload was answered with a duration of 1.00.
C9_Witness ==
  /\ Succeeded
  /\ last.request.audio_base64 = B64_D
  /\ last.body.audio_duration_seconds = 100

\* C10 -- Draw order: a successful run seeds the generator once and then
\* consumes it in the order label, confidence, indicator count, indicator
\* sample, spectral_analysis, prosodic_features, artifact_detection, each draw
\* starting where the one before ended, in m.py and in main.py alike.
C10_DrawOrder ==
  Succeeded =>
    /\ [i \in 1..Len(last.draws) |-> last.draws[i].use]
         = <<"seed", "label", "confidence", "indicator_count", "indicator_sample",
             "spectral_analysis", "prosodic_features", "artifact_detection">>
    /\ last.draws[1].from = 0
    /\ \A i \in 2..Len(last.draws) :
         /\ last.draws[i].from = last.draws[i - 1].to
         /\ last.draws[i].to > last.draws[i].from
         /\ last.draws[i].seed = last.draws[1].seed

\* C11 (as stated) -- Duration of the empty payload: for a payload of 0 bytes
\* the duration estimate completes without error and yields 0.
C11_EmptyDurationZero ==
  (Handled(last) /\ Authenticated(last) /\ last.request.audio_base64 = B64_EMPTY)
    => /\ last.status_code = 200
       /\ last.body.audio_duration_seconds = 0

\* C11 (amended) -- the duration is estimated only for a payload that passed
\* the signature check, and there it completes without error with a value
\* that is not negative (0.00 for a payload of a few bytes); the payload of 0
\* bytes never reaches the estimate: decode_audio raises "Invalid MP3 format"
\* for it and the 400 response carries no duration.
C11_DurationAfterSignature ==
  (Handled(last) /\ Authenticated(last))
    => /\ "audio_duration_seconds" \in DOMAIN last.body
            <=> last.request.audio_base64 \in AcceptedInputs
       /\ last.request.audio_base64 \in AcceptedInputs
            => /\ last.status_code = 200
               /\ last.body.audio_duration_seconds >= 0
               /\ last.body.audio_duration_seconds = 0
                    <=> 200 * PayloadBytes(last.request.audio_base64) < 16384
       /\ last.request.audio_base64 = B64_EMPTY
            => /\ last.status_code = 400
               /\ last.body.error = <<"Invalid audio data: ", "Invalid MP3 format">>

\* The payload of 0 bytes was refused after a payload of 5 bytes had been
\* given the duration 0.00.
C11_Witness ==
  /\ Handled(last) /\ Authenticated(last)
  /\ last.request.audio_base64 = B64_EMPTY
  /\ last.status_code = 400
  /\ prev.set
  /\ prev.request.audio_base64 = B64_B
  /\ prev.body.audio_duration_seconds = 0

\* The capitalized tags of the supported languages that requests use.
Capitalized(language) ==
  CASE language = english -> <<"E","n","g","l","i","s","h">>
    [] language = tamil -> <<"T","a","m","i","l">>

\* C12 -- Language non-interference: two runs on the same accepted payload
\* return the same label, confidence, indicators, three sub-scores and
\* duration whatever the two supported languages are; the language shows only
\* in the echoed language field and in the caption, which is the capitalized
\* tag followed by " phonetic patterns analyzed".
C12_LanguageNonInterference ==
  Succeeded =>
    /\ last.body.language = last.request.language
    /\ last.body.explanation.language_specific_analysis
         = <<Capitalized(last.request.language), " phonetic patterns analyzed">>
    /\ (prev.set /\ prev.request.audio_base64 = last.request.audio_base64)
         => /\ last.body.classification = prev.body.classification
            /\ last.body.confidence = prev.body.confidence
            /\ last.body.explanation.primary_indicators
                 = prev.body.explanation.primary_indicators
            /\ last.body.explanation.confidence_factors
                 = prev.body.explanation.confidence_factors
            /\ last.body.audio_duration_seconds = prev.body.audio_duration_seconds

\* One payload was scored as english and then as tamil, with two captions.
C12_Witness ==
  /\ prev.set /\ Succeeded
  /\ prev.request.audio_base64 = last.request.audio_base64
  /\ prev.request.language = english
  /\ last.request.language = tamil
  /\ prev.body.explanation.language_specific_analysis
       # last.body.explanation.language_specific_analysis
====
